---- MODULE Spec2Model ----
(***************************************************************************)
(* University credential validation system (src/Credential_System.py).     *)
(*                                                                         *)
(* University objects hold a table of student rows (students_df) indexed   *)
(* by student_id; a ValidationSystem holds the ordered list of registered  *)
(* universities, a FIFO queue of (student_id, requester) requests, two     *)
(* counters and the validation history table.  The program is single       *)
(* threaded: every method call is one atomic action.                       *)
(*                                                                         *)
(* Floats are kept in hundredths (3.5 is 350).  The wall-clock columns of  *)
(* the history (timestamp, processing_time) are not modelled.              *)
(***************************************************************************)
EXTENDS Integers, Sequences, FiniteSets, TLC

\* ---------------------------------------------------------------- bounds
MaxStudents   == 2   \* rows one University may hold (SpecStore)
MaxRows       == 2   \* rows all Universities hold together (Spec)
MaxRequests   == 2   \* cap on total_requests
MaxBatch      == 2   \* longest list handed to request_validations_bulk
MaxN          == 3   \* largest n handed to get_top_students

\* ---------------------------------------------------------------- inputs
UniNames   == {"MIT", "Stanford University"}
StudentIds == {"S1", "S2"}
Requesters == {"Acme", "Tesla"}
Today      == "2024-05-01"

\* Python values handed to add_student as cgpa / graduation_year.
PyF(v) == [t |-> "float", v |-> v]
PyI(v) == [t |-> "int", v |-> v]
PyS(s) == [t |-> "str", s |-> s]

\* add_student arguments: student_id, name, degree, cgpa, graduation_year.
\* SysAddInputs is what the network specification adds ("S2" is then an id
\* no university knows); the University specification adds them all.
SysAddInputs ==
  { <<"S1", "Alice", "CS", PyF(350), PyI(2023)>>,
    <<"S1", "Eve",   "EE", PyF(390), PyS("20x4")>> }

AddInputs ==
  SysAddInputs \cup
  { <<"S1", "Bob",   "EE", PyS("4.0"), PyS("2024")>>,
    <<"S2", "Carol", "CS", PyF(350), PyI(2024)>>,
    <<"S2", "Dan",   "CS", PyS("abc"), PyI(2024)>> }

None == [py |-> "None"]

\* What pandas puts in a cell that has no value.
NaN == "nan"

\* add_students_bulk arguments: lists of dicts.  A dict is a record that has
\* the keys the caller wrote.  No list here leaves 'cgpa' out of only some
\* of its dicts: the row would carry a NaN cgpa, which the arithmetic of
\* the statistics below does not represent.
Alice == [student_id |-> "S1", name |-> "Alice", degree |-> "CS",
          cgpa |-> PyF(350), graduation_year |-> PyI(2023)]
Carol == [student_id |-> "S2", name |-> "Carol", degree |-> "CS",
          cgpa |-> PyF(350), graduation_year |-> PyI(2024)]

SysBulkInputs ==
  { <<Alice>>,
    <<Alice, [student_id |-> "S1", name |-> "Eve", degree |-> "EE",
              cgpa |-> PyF(390), graduation_year |-> PyS("20x4")]>> }

BulkInputs ==
  SysBulkInputs \cup
  { <<Alice, Carol>>,
    <<>>,
    <<[student_id |-> "S2", degree |-> "CS",
       cgpa |-> PyF(350), graduation_year |-> PyI(2024)]>>,
    <<Alice, [student_id |-> "S2", name |-> "Dan", degree |-> "CS",
              cgpa |-> PyF(350)]>>,
    <<Alice, [student_id |-> "S2", name |-> "Dan", degree |-> "CS",
              cgpa |-> PyS("abc"), graduation_year |-> PyI(2024)]>>,
    <<[student_id |-> "S2", name |-> "Dan", degree |-> "CS",
       graduation_year |-> PyI(2024)]>>,
    <<[name |-> "Dan", degree |-> "CS",
       cgpa |-> PyF(350), graduation_year |-> PyI(2024)]>> }

\* Every University object of the model, by name: the universities of the
\* network and one more whose name differs from another's by '_' for ' '.
Objects == UniNames \cup {"Stanford_University"}

\* f"data/{name.replace(' ', '_')}_students.csv"
csv_file(name) ==
  CASE name = "MIT"                 -> "data/MIT_students.csv"
    [] name = "Stanford University" -> "data/Stanford_University_students.csv"
    [] name = "Stanford_University" -> "data/Stanford_University_students.csv"

NoFile == [exists |-> FALSE, rows |-> <<>>]

\* ------------------------------------------------------------- coercions
\* float(x): floats and ints convert, a string converts when it is a
\* decimal literal.  Result in hundredths; ok = FALSE stands for ValueError.
PyFloat(x) ==
  CASE x.t = "float" -> [ok |-> TRUE, v |-> x.v]
    [] x.t = "int"   -> [ok |-> TRUE, v |-> x.v * 100]
    [] x.t = "str"   ->
         CASE x.s = "4.0"  -> [ok |-> TRUE, v |-> 400]
           [] x.s = "3.5"  -> [ok |-> TRUE, v |-> 350]
           [] x.s = "2024" -> [ok |-> TRUE, v |-> 202400]
           [] OTHER        -> [ok |-> FALSE, v |-> 0]

\* int(x): ints convert, floats truncate, a string converts when it is an
\* integer literal ("4.0" is not one).
PyInt(x) ==
  CASE x.t = "int"   -> [ok |-> TRUE, v |-> x.v]
    [] x.t = "float" -> [ok |-> TRUE, v |-> x.v \div 100]
    [] x.t = "str"   ->
         CASE x.s = "2024" -> [ok |-> TRUE, v |-> 2024]
           [] OTHER        -> [ok |-> FALSE, v |-> 0]

\* ----------------------------------------------------------------- state
VARIABLES
  students_df,            \* University.students_df, per University object
  universities,           \* ValidationSystem.universities
  validation_queue,       \* ValidationSystem.validation_queue
  total_requests,         \* ValidationSystem.total_requests
  successful_validations, \* ValidationSystem.successful_validations
  validation_history,     \* ValidationSystem.validation_history
  submitted,              \* every request ever queued, in call order
  csv_files,              \* the files under data/, by path
  ret                     \* what the last call returned, printed or raised

vars == <<students_df, universities, validation_queue, total_requests,
          successful_validations, validation_history, submitted,
          csv_files, ret>>

sysvars == <<students_df, universities, validation_queue, total_requests,
             successful_validations, validation_history>>

\* No file exists under data/: every University starts with the empty table
\* of the else branch of __init__.
Init ==
  /\ students_df = [u \in Objects |-> <<>>]
  /\ csv_files = [p \in {csv_file(u) : u \in Objects} |-> NoFile]
  /\ universities = <<>>
  /\ validation_queue = <<>>
  /\ total_requests = 0
  /\ successful_validations = 0
  /\ validation_history = <<>>
  /\ submitted = <<>>
  /\ ret = [op |-> "init"]

\* --------------------------------------------------------------- helpers
RECURSIVE SumSeq(_)
SumSeq(s) == IF s = <<>> THEN 0 ELSE Head(s) + SumSeq(Tail(s))

\* a / b rounded to the nearest integer (a >= 0, b > 0).
RoundDiv(a, b) == (2 * a + b) \div (2 * b)

Column(rows, f) == [i \in 1..Len(rows) |-> rows[i][f]]

SeqMax(s) == CHOOSE x \in {s[i] : i \in 1..Len(s)} : \A j \in 1..Len(s) : s[j] <= x
SeqMin(s) == CHOOSE x \in {s[i] : i \in 1..Len(s)} : \A j \in 1..Len(s) : x <= s[j]

RemoveAt(s, i) == SubSeq(s, 1, i - 1) \o SubSeq(s, i + 1, Len(s))

\* ------------------------------------------------------------ University
RowsWithId(rows, id) == SelectSeq(rows, LAMBDA r : r.student_id = id)

\* verify_student: the index lookup gives one row (a Series) for a unique
\* label and a DataFrame for a repeated one; int() of a two-element column
\* raises TypeError, which the except clause turns into None.
verify_student(rows, id) ==
  LET m == RowsWithId(rows, id) IN
  IF Len(m) = 0 THEN None
  ELSE IF Len(m) = 1 THEN m[1]
  ELSE None

\* add_student: the row the try block builds, or ok = FALSE when float()
\* or int() raises.
NewStudent(u, inp) ==
  LET c == PyFloat(inp[4])
      y == PyInt(inp[5])
  IN [ok  |-> c.ok /\ y.ok,
      row |-> [student_id |-> inp[1], name |-> inp[2], university |-> u,
               degree |-> inp[3], cgpa |-> c.v, graduation_year |-> y.v,
               enrollment_date |-> Today]]

AddStudent(u, inp) ==
  /\ LET n == NewStudent(u, inp)
     IN IF n.ok
        THEN /\ students_df' = [students_df EXCEPT ![u] = Append(@, n.row)]
             /\ ret' = [op |-> "add_student", uni |-> u, args |-> inp,
                        value |-> TRUE]
        ELSE /\ students_df' = students_df
             /\ ret' = [op |-> "add_student", uni |-> u, args |-> inp,
                        value |-> FALSE]
  /\ UNCHANGED <<universities, validation_queue, total_requests,
                 successful_validations, validation_history, submitted, csv_files>>

\* pd.DataFrame(students_list): the columns are the keys of all the dicts
\* together, and a dict without a key gets NaN in that column.
Columns(list) == UNION {DOMAIN list[i] : i \in 1..Len(list)}

Cell(d, k) == IF k \in DOMAIN d THEN d[k] ELSE NaN

\* The row add_students_bulk builds from one dict, once the column
\* conversions went through.
BulkRow(u, d) ==
  [student_id |-> Cell(d, "student_id"), name |-> Cell(d, "name"),
   university |-> u, degree |-> Cell(d, "degree"),
   cgpa |-> IF "cgpa" \in DOMAIN d THEN PyFloat(d.cgpa).v ELSE NaN,
   graduation_year |-> IF "graduation_year" \in DOMAIN d
                       THEN PyInt(d.graduation_year).v ELSE NaN,
   enrollment_date |-> Today]

\* add_students_bulk, the try block.  It raises, and ok = FALSE, when
\*   - new_df['cgpa'] or new_df['graduation_year'] is no column (KeyError);
\*   - astype(float) meets a value float() rejects (NaN converts);
\*   - astype(int) meets a value int() rejects, or NaN;
\*   - set_index('student_id') finds no such column (KeyError).
\* 'name' and 'degree' are never read, and a NaN student_id is a label like
\* any other.
add_students_bulk(u, list) ==
  LET n == Len(list)
      cols == Columns(list)
  IN [ok |-> /\ "cgpa" \in cols
             /\ \A i \in 1..n : "cgpa" \in DOMAIN list[i]
                                  => PyFloat(list[i].cgpa).ok
             /\ "graduation_year" \in cols
             /\ \A i \in 1..n : /\ "graduation_year" \in DOMAIN list[i]
                                 /\ PyInt(list[i].graduation_year).ok
             /\ "student_id" \in cols,
      rows |-> [i \in 1..n |-> BulkRow(u, list[i])]]

\* The batch is converted with nothing inserted yet; the rows the
\* conversions accepted go in all the same.
AddStudentsBulk_partial(u, list) ==
  /\ LET b == add_students_bulk(u, list)
         good == SelectSeq(list, LAMBDA d :
                   /\ {"cgpa", "graduation_year"} \subseteq DOMAIN d
                   /\ PyFloat(d.cgpa).ok /\ PyInt(d.graduation_year).ok)
     IN /\ students_df' =
             [students_df EXCEPT ![u] =
                @ \o [i \in 1..Len(good) |-> BulkRow(u, good[i])]]
        /\ ret' = [op |-> "add_students_bulk", uni |-> u, args |-> list,
                   value |-> b.ok]
  /\ UNCHANGED <<universities, validation_queue, total_requests,
                 successful_validations, validation_history, submitted,
                 csv_files>>

AddStudentsBulk(u, list) ==
  /\ LET b == add_students_bulk(u, list)
     IN IF b.ok
        THEN /\ students_df' = [students_df EXCEPT ![u] = @ \o b.rows]
             /\ ret' = [op |-> "add_students_bulk", uni |-> u, args |-> list,
                        value |-> TRUE]
        ELSE /\ students_df' = students_df
             /\ ret' = [op |-> "add_students_bulk", uni |-> u, args |-> list,
                        value |-> FALSE]
  /\ UNCHANGED <<universities, validation_queue, total_requests,
                 successful_validations, validation_history, submitted,
                 csv_files>>

VerifyStudent(u, id) ==
  /\ ret' = [op |-> "verify_student", uni |-> u, id |-> id,
             value |-> verify_student(students_df[u], id)]
  /\ UNCHANGED <<sysvars, submitted, csv_files>>

\* nlargest(n, 'cgpa'), keep = 'first', on a numeric column: repeatedly take
\* the first row that carries the largest remaining cgpa.
RECURSIVE nlargest(_, _)
nlargest(rows, n) ==
  IF n <= 0 \/ rows = <<>> THEN <<>>
  ELSE LET top == SeqMax(Column(rows, "cgpa"))
           i == CHOOSE k \in 1..Len(rows) :
                  /\ rows[k].cgpa = top
                  /\ \A j \in 1..(k - 1) : rows[j].cgpa # top
       IN <<rows[i]>> \o nlargest(RemoveAt(rows, i), n - 1)

\* get_top_students: a table without rows (created from the column list, or
\* read from a file with only the header) has cgpa of dtype object, for
\* which nlargest raises TypeError before looking at n.
get_top_students(rows, n) ==
  IF rows = <<>>
  THEN [raised |-> "TypeError", rows |-> <<>>]
  ELSE [raised |-> "none", rows |-> nlargest(rows, n)]

GetTopStudents(u, n) ==
  /\ ret' = [op |-> "get_top_students", uni |-> u, n |-> n,
             value |-> get_top_students(students_df[u], n)]
  /\ UNCHANGED <<sysvars, submitted, csv_files>>

RECURSIVE SortAsc(_)
SortAsc(s) ==
  IF s = <<>> THEN <<>>
  ELSE LET i == CHOOSE k \in 1..Len(s) : s[k] = SeqMin(s)
       IN <<s[i]>> \o SortAsc(RemoveAt(s, i))

Median(s) ==
  LET t == SortAsc(s)
      n == Len(t)
  IN IF n % 2 = 1 THEN t[(n + 1) \div 2]
     ELSE RoundDiv(t[n \div 2] + t[n \div 2 + 1], 2)

\* Series.std(): sample standard deviation (ddof = 1), NaN for one value.
\* For n values x: variance = (n * sum(x^2) - sum(x)^2) / (n * (n - 1)).
SampleStd(s) ==
  LET n == Len(s)
      num == n * SumSeq([i \in 1..n |-> s[i] * s[i]]) - SumSeq(s) * SumSeq(s)
      den == n * (n - 1)
  IN IF n < 2 THEN NaN
     ELSE CHOOSE k \in 0..(SeqMax(s) - SeqMin(s)) :
            /\ k = 0 \/ (2 * k - 1) * (2 * k - 1) * den <= 4 * num
            /\ 4 * num < (2 * k + 1) * (2 * k + 1) * den

RecentYear == 2024

\* get_statistics: the empty branch returns a dict without 'std_dev_cgpa'.
get_statistics(rows) ==
  IF rows = <<>>
  THEN [total_students |-> 0, average_cgpa |-> 0, median_cgpa |-> 0,
        highest_cgpa |-> 0, lowest_cgpa |-> 0, degrees_offered |-> 0,
        recent_graduates |-> 0]
  ELSE LET c == Column(rows, "cgpa") IN
       [total_students |-> Len(rows),
        average_cgpa |-> RoundDiv(SumSeq(c), Len(c)),
        median_cgpa |-> Median(c),
        highest_cgpa |-> SeqMax(c),
        lowest_cgpa |-> SeqMin(c),
        std_dev_cgpa |-> SampleStd(c),
        degrees_offered |-> Cardinality({rows[i].degree : i \in 1..Len(rows)}),
        recent_graduates |->
          Len(SelectSeq(rows, LAMBDA r : r.graduation_year >= RecentYear))]

GetStatistics(u) ==
  /\ ret' = [op |-> "get_statistics", uni |-> u,
             value |-> get_statistics(students_df[u])]
  /\ UNCHANGED <<sysvars, submitted, csv_files>>

\* ------------------------------------------------------------ the files
\* A CSV file holds text.  Of a row's values only the student_id has a text
\* that reads back as something else: cgpa and graduation_year were numbers
\* and read back as the same numbers, the other columns are strings that no
\* parser takes for a number.  Id41 is the int64 label 1001, written apart
\* from the str label "1001" because the two are different index labels.
Id41 == "1001 (int64)"

\* str(label), as to_csv writes it.
CsvText(id) == IF id = Id41 THEN "1001" ELSE id

\* to_csv(index=False) of the table.
to_csv(rows) ==
  [i \in 1..Len(rows) |-> [rows[i] EXCEPT !.student_id = CsvText(@)]]

\* Does the text parse as an integer?
IsIntText(t) == t \in {"1001"}

\* pd.read_csv: a column whose every cell parses as an integer becomes
\* int64, a column with one cell that does not stays a column of str.  A
\* file with the header line alone gives a table without rows.
read_csv(rows) ==
  IF \A i \in 1..Len(rows) : IsIntText(rows[i].student_id)
  THEN [i \in 1..Len(rows) |-> [rows[i] EXCEPT !.student_id = Id41]]
  ELSE rows

\* save_to_csv; io_ok = FALSE is to_csv raising OSError.
SaveToCsv(u, io_ok) ==
  /\ IF io_ok
     THEN csv_files' = [csv_files EXCEPT ![csv_file(u)] =
                          [exists |-> TRUE, rows |-> to_csv(students_df[u])]]
     ELSE csv_files' = csv_files
  /\ ret' = [op |-> "save_to_csv", uni |-> u, value |-> io_ok]
  /\ UNCHANGED <<sysvars, submitted>>

\* University(name): a new object takes the place of the one of that name,
\* with the rows of the file at csv_file(name) when there is one.
University(u) ==
  /\ students_df' = [students_df EXCEPT ![u] =
                       IF csv_files[csv_file(u)].exists
                       THEN read_csv(csv_files[csv_file(u)].rows)
                       ELSE <<>>]
  /\ ret' = [op |-> "University", uni |-> u,
             loaded |-> csv_files[csv_file(u)].exists]
  /\ UNCHANGED <<universities, validation_queue, total_requests,
                 successful_validations, validation_history, submitted,
                 csv_files>>

\* ------------------------------------------------------ ValidationSystem
RegisterUniversity(u) ==
  /\ universities' = Append(universities, u)
  /\ ret' = [op |-> "register_university"]
  /\ UNCHANGED <<students_df, validation_queue, total_requests,
                 successful_validations, validation_history, submitted, csv_files>>

\* request_validation without the counter increment.
RequestValidation_uncounted(id, requester) ==
  /\ validation_queue' = Append(validation_queue, <<id, requester>>)
  /\ total_requests' = total_requests
  /\ submitted' = Append(submitted, <<id, requester>>)
  /\ ret' = [op |-> "request_validation", ids |-> <<id>>, requester |-> requester]
  /\ UNCHANGED <<students_df, universities, successful_validations,
                 validation_history, csv_files>>

RequestValidation(id, requester) ==
  /\ validation_queue' = Append(validation_queue, <<id, requester>>)
  /\ total_requests' = total_requests + 1
  /\ submitted' = Append(submitted, <<id, requester>>)
  /\ ret' = [op |-> "request_validation", ids |-> <<id>>, requester |-> requester]
  /\ UNCHANGED <<students_df, universities, successful_validations,
                 validation_history, csv_files>>

\* request_validations_bulk with the increment outside the loop.
RequestValidationsBulk_once(ids, requester) ==
  LET reqs == [i \in 1..Len(ids) |-> <<ids[i], requester>>] IN
  /\ validation_queue' = validation_queue \o reqs
  /\ total_requests' = total_requests + 1
  /\ submitted' = submitted \o reqs
  /\ ret' = [op |-> "request_validations_bulk", ids |-> ids,
             requester |-> requester]
  /\ UNCHANGED <<students_df, universities, successful_validations,
                 validation_history, csv_files>>

\* request_validations_bulk: one append and one increment per id, in order.
RequestValidationsBulk(ids, requester) ==
  LET reqs == [i \in 1..Len(ids) |-> <<ids[i], requester>>] IN
  /\ validation_queue' = validation_queue \o reqs
  /\ total_requests' = total_requests + Len(ids)
  /\ submitted' = submitted \o reqs
  /\ ret' = [op |-> "request_validations_bulk", ids |-> ids,
             requester |-> requester]
  /\ UNCHANGED <<students_df, universities, successful_validations,
                 validation_history, csv_files>>

\* The for loop of process_validations: index of the first registered
\* university, from position i on, whose verify_student is not None; 0 when
\* the loop runs out.
RECURSIVE Search(_, _, _, _)
Search(unis, dfs, id, i) ==
  IF i > Len(unis) THEN 0
  ELSE IF verify_student(dfs[unis[i]], id) # None THEN i
  ELSE Search(unis, dfs, id, i + 1)

\* The while loop with pop() in place of popleft().
RECURSIVE ProcessLoop_pop(_, _, _, _, _, _)
ProcessLoop_pop(q, hist, succ, total, unis, dfs) ==
  IF q = <<>> THEN [history |-> hist, successful |-> succ]
  ELSE LET req == q[Len(q)]
           rest == SubSeq(q, 1, Len(q) - 1)
           i == Search(unis, dfs, req[1], 1)
           found == i # 0
           new_log == [request_id |-> total - Len(rest),
                       student_id |-> req[1],
                       status |-> IF found THEN "Success" ELSE "Not Found",
                       university |-> IF found THEN unis[i] ELSE "N/A",
                       requester |-> req[2]]
       IN ProcessLoop_pop(rest, Append(hist, new_log),
                          IF found THEN succ + 1 ELSE succ, total, unis, dfs)

\* The while loop leaving at the first request that is not found.
RECURSIVE ProcessLoop_stop(_, _, _, _, _, _)
ProcessLoop_stop(q, hist, succ, total, unis, dfs) ==
  IF q = <<>> THEN [history |-> hist, successful |-> succ]
  ELSE LET req == Head(q)
           rest == Tail(q)
           i == Search(unis, dfs, req[1], 1)
           found == i # 0
           new_log == [request_id |-> total - Len(rest),
                       student_id |-> req[1],
                       status |-> IF found THEN "Success" ELSE "Not Found",
                       university |-> IF found THEN unis[i] ELSE "N/A",
                       requester |-> req[2]]
       IN IF found
          THEN ProcessLoop_stop(rest, Append(hist, new_log), succ + 1,
                                total, unis, dfs)
          ELSE [history |-> Append(hist, new_log), successful |-> succ]

\* The while loop whose for loop has no break: every university that knows
\* the student counts as a successful validation.
RECURSIVE ProcessLoop_nobreak(_, _, _, _, _, _)
ProcessLoop_nobreak(q, hist, succ, total, unis, dfs) ==
  IF q = <<>> THEN [history |-> hist, successful |-> succ]
  ELSE LET req == Head(q)
           rest == Tail(q)
           hits == {k \in 1..Len(unis) : verify_student(dfs[unis[k]], req[1]) # None}
           found == hits # {}
           i == IF found THEN CHOOSE k \in hits : \A j \in hits : j <= k ELSE 0
           new_log == [request_id |-> total - Len(rest),
                       student_id |-> req[1],
                       status |-> IF found THEN "Success" ELSE "Not Found",
                       university |-> IF found THEN unis[i] ELSE "N/A",
                       requester |-> req[2]]
       IN ProcessLoop_nobreak(rest, Append(hist, new_log),
                              succ + Cardinality(hits), total, unis, dfs)

\* The while loop of process_validations.
\* The while loop putting each new entry at the head of the history.
RECURSIVE ProcessLoop_prepend(_, _, _, _, _, _)
ProcessLoop_prepend(q, hist, succ, total, unis, dfs) ==
  IF q = <<>> THEN [history |-> hist, successful |-> succ]
  ELSE LET req == Head(q)
           rest == Tail(q)
           i == Search(unis, dfs, req[1], 1)
           found == i # 0
           new_log == [request_id |-> total - Len(rest),
                       student_id |-> req[1],
                       status |-> IF found THEN "Success" ELSE "Not Found",
                       university |-> IF found THEN unis[i] ELSE "N/A",
                       requester |-> req[2]]
       IN ProcessLoop_prepend(rest, <<new_log>> \o hist,
                              IF found THEN succ + 1 ELSE succ, total, unis, dfs)

\* The while loop that writes no history entry for a request no
\* university knows.
RECURSIVE ProcessLoop_skipmiss(_, _, _, _, _, _)
ProcessLoop_skipmiss(q, hist, succ, total, unis, dfs) ==
  IF q = <<>> THEN [history |-> hist, successful |-> succ]
  ELSE LET req == Head(q)
           rest == Tail(q)
           i == Search(unis, dfs, req[1], 1)
           found == i # 0
           new_log == [request_id |-> total - Len(rest),
                       student_id |-> req[1],
                       status |-> "Success",
                       university |-> IF found THEN unis[i] ELSE "N/A",
                       requester |-> req[2]]
       IN ProcessLoop_skipmiss(rest,
                               IF found THEN Append(hist, new_log) ELSE hist,
                               IF found THEN succ + 1 ELSE succ, total, unis, dfs)

\* The while loop computing request_id from the queue length before
\* popleft.
RECURSIVE ProcessLoop_idfirst(_, _, _, _, _, _)
ProcessLoop_idfirst(q, hist, succ, total, unis, dfs) ==
  IF q = <<>> THEN [history |-> hist, successful |-> succ]
  ELSE LET req == Head(q)
           rest == Tail(q)
           i == Search(unis, dfs, req[1], 1)
           found == i # 0
           new_log == [request_id |-> total - Len(q),
                       student_id |-> req[1],
                       status |-> IF found THEN "Success" ELSE "Not Found",
                       university |-> IF found THEN unis[i] ELSE "N/A",
                       requester |-> req[2]]
       IN ProcessLoop_idfirst(rest, Append(hist, new_log),
                              IF found THEN succ + 1 ELSE succ, total, unis, dfs)

RECURSIVE ProcessLoop(_, _, _, _, _, _)
ProcessLoop(q, hist, succ, total, unis, dfs) ==
  IF q = <<>> THEN [history |-> hist, successful |-> succ]
  ELSE LET req == Head(q)
           rest == Tail(q)
           i == Search(unis, dfs, req[1], 1)
           found == i # 0
           new_log == [request_id |-> total - Len(rest),
                       student_id |-> req[1],
                       status |-> IF found THEN "Success" ELSE "Not Found",
                       university |-> IF found THEN unis[i] ELSE "N/A",
                       requester |-> req[2]]
       IN ProcessLoop(rest, Append(hist, new_log),
                      IF found THEN succ + 1 ELSE succ, total, unis, dfs)

\* successful / total * 100 printed with d decimals: scale is 10^d.
Percent(successful, total, scale) == RoundDiv(successful * 100 * scale, total)

\* process_validations taking the processed requests off total_requests.
ProcessValidations_consume ==
  IF validation_queue = <<>>
  THEN /\ ret' = [op |-> "process_validations", processed |-> 0,
                  raised |-> "none", rate |-> <<>>]
       /\ UNCHANGED <<sysvars, submitted, csv_files>>
  ELSE LET out == ProcessLoop(validation_queue, validation_history,
                              successful_validations, total_requests,
                              universities, students_df)
       IN /\ validation_queue' = <<>>
          /\ validation_history' = out.history
          /\ successful_validations' = out.successful
          /\ ret' = IF total_requests = 0
                    THEN [op |-> "process_validations",
                          processed |-> Len(validation_queue),
                          raised |-> "ZeroDivisionError", rate |-> <<>>]
                    ELSE [op |-> "process_validations",
                          processed |-> Len(validation_queue),
                          raised |-> "none",
                          rate |-> <<Percent(out.successful, total_requests, 10)>>]
          /\ total_requests' = total_requests - Len(validation_queue)
          /\ UNCHANGED <<students_df, universities, submitted, csv_files>>

\* process_validations without the test of lines 284-286: the loop does
\* nothing and the summary divides by requests_to_process = 0.
ProcessValidations_noguard ==
  IF validation_queue = <<>>
  THEN /\ ret' = [op |-> "process_validations", processed |-> 0,
                  raised |-> "ZeroDivisionError", rate |-> <<>>]
       /\ UNCHANGED <<sysvars, submitted, csv_files>>
  ELSE LET out == ProcessLoop(validation_queue, validation_history,
                              successful_validations, total_requests,
                              universities, students_df)
       IN /\ validation_queue' = <<>>
          /\ validation_history' = out.history
          /\ successful_validations' = out.successful
          /\ ret' = IF total_requests = 0
                    THEN [op |-> "process_validations",
                          processed |-> Len(validation_queue),
                          raised |-> "ZeroDivisionError", rate |-> <<>>]
                    ELSE [op |-> "process_validations",
                          processed |-> Len(validation_queue),
                          raised |-> "none",
                          rate |-> <<Percent(out.successful, total_requests, 10)>>]
          /\ UNCHANGED <<students_df, universities, total_requests, submitted,
                         csv_files>>

ProcessValidations ==
  IF validation_queue = <<>>
  THEN /\ ret' = [op |-> "process_validations", processed |-> 0,
                  raised |-> "none", rate |-> <<>>]
       /\ UNCHANGED <<sysvars, submitted, csv_files>>
  ELSE LET out == ProcessLoop(validation_queue, validation_history,
                              successful_validations, total_requests,
                              universities, students_df)
       IN /\ validation_queue' = <<>>
          /\ validation_history' = out.history
          /\ successful_validations' = out.successful
          /\ ret' = IF total_requests = 0
                    THEN [op |-> "process_validations",
                          processed |-> Len(validation_queue),
                          raised |-> "ZeroDivisionError", rate |-> <<>>]
                    ELSE [op |-> "process_validations",
                          processed |-> Len(validation_queue),
                          raised |-> "none",
                          rate |-> <<Percent(out.successful, total_requests, 10)>>]
          /\ UNCHANGED <<students_df, universities, total_requests, submitted,
                         csv_files>>

RECURSIVE SumOver(_, _)
SumOver(S, f) ==
  IF S = {} THEN 0
  ELSE LET x == CHOOSE y \in S : TRUE IN f[x] + SumOver(S \ {x}, f)

\* Series.value_counts(): how often each value occurs.
ValueCounts(s) ==
  [x \in {s[i] : i \in 1..Len(s)} |->
     Cardinality({i \in 1..Len(s) : s[i] = x})]

\* Position in the registration list of the first university whose table is
\* empty (0 when there is none): get_analytics reads stats['std_dev_cgpa']
\* for it, which the empty branch of get_statistics does not provide.
FirstKeyError(unis, dfs) ==
  LET bad == {i \in 1..Len(unis) : ~("std_dev_cgpa" \in DOMAIN get_statistics(dfs[unis[i]]))}
  IN IF bad = {} THEN 0 ELSE CHOOSE i \in bad : \A j \in bad : i <= j

\* What get_analytics prints, section by section, and what it raises.
get_analytics(unis, dfs, total, succ, hist) ==
  LET k == FirstKeyError(unis, dfs)
      shown == IF k = 0 THEN Len(unis) ELSE k - 1
      ok == SelectSeq(hist, LAMBDA h : h.status = "Success")
  IN [raised |-> IF k = 0 THEN "none" ELSE "KeyError",
      universities |-> Len(unis),
      total_students |-> SumSeq([i \in 1..Len(unis) |-> Len(dfs[unis[i]])]),
      total_requests |-> total,
      successful_validations |-> succ,
      success_rate |-> IF total > 0 THEN <<Percent(succ, total, 100)>> ELSE <<>>,
      by_university |-> ValueCounts(Column(ok, "university")),
      by_requester |-> ValueCounts(Column(hist, "requester")),
      per_university |->
        [i \in 1..shown |->
           [name |-> unis[i],
            stats |-> get_statistics(dfs[unis[i]]),
            top_3 |-> IF dfs[unis[i]] # <<>>
                      THEN get_top_students(dfs[unis[i]], 3).rows
                      ELSE <<>>]]]

\* get_analytics keeping the top rows in the table it reads them from.
GetAnalytics_inplace ==
  /\ ret' = [op |-> "get_analytics",
             value |-> get_analytics(universities, students_df, total_requests,
                                     successful_validations, validation_history)]
  /\ students_df' = [u \in Objects |->
                       IF \E i \in 1..Len(universities) : universities[i] = u
                       THEN nlargest(students_df[u], 1)
                       ELSE students_df[u]]
  /\ UNCHANGED <<universities, validation_queue, total_requests,
                 successful_validations, validation_history, submitted, csv_files>>

GetAnalytics ==
  /\ ret' = [op |-> "get_analytics",
             value |-> get_analytics(universities, students_df, total_requests,
                                     successful_validations, validation_history)]
  /\ UNCHANGED <<sysvars, submitted, csv_files>>

\* export_comprehensive_report: the System Summary sheet; io_ok = FALSE is a
\* failure of the workbook write, caught and returned as False.
ExportComprehensiveReport(io_ok) ==
  /\ ret' = [op |-> "export_comprehensive_report",
             value |-> io_ok,
             summary |->
               IF io_ok
               THEN <<Len(universities),
                      SumSeq([i \in 1..Len(universities) |->
                                Len(students_df[universities[i]])]),
                      total_requests,
                      successful_validations,
                      IF total_requests > 0
                      THEN Percent(successful_validations, total_requests, 100)
                      ELSE 0>>
               ELSE <<>>]
  /\ UNCHANGED <<sysvars, submitted, csv_files>>

\* ---------------------------------------------------------- specifications
TotalRows == SumOver(UniNames, [u \in UniNames |-> Len(students_df[u])])

\* Each University object is handed to register_university at most once.
Registered(u) == \E i \in 1..Len(universities) : universities[i] = u

BatchInputs == UNION {[1..n -> StudentIds] : n \in 0..MaxBatch}

\* The validation network: universities, requests, processing, reports.
Next ==
  \/ \E u \in UniNames, inp \in SysAddInputs :
       TotalRows < MaxRows /\ AddStudent(u, inp)
  \/ \E u \in UniNames, list \in SysBulkInputs :
       TotalRows < MaxRows /\ AddStudentsBulk(u, list)
  \/ \E u \in UniNames :
       ~Registered(u) /\ RegisterUniversity(u)
  \/ \E id \in StudentIds, r \in Requesters :
       total_requests < MaxRequests /\ RequestValidation(id, r)
  \/ \E ids \in BatchInputs, r \in Requesters :
       total_requests + Len(ids) <= MaxRequests /\ RequestValidationsBulk(ids, r)
  \/ ProcessValidations
  \/ GetAnalytics
  \/ \E io_ok \in BOOLEAN : ExportComprehensiveReport(io_ok)

Spec == Init /\ [][Next]_vars

\* One University object on its own: adds, lookups, statistics, ranking.
\* (No method of a University reads another University.)
StoreUnis == {"MIT"}

NextStore ==
  \/ \E u \in StoreUnis, inp \in AddInputs :
       Len(students_df[u]) < MaxStudents /\ AddStudent(u, inp)
  \/ \E u \in StoreUnis, list \in BulkInputs :
       /\ add_students_bulk(u, list).ok
          => Len(students_df[u]) + Len(list) <= MaxStudents
       /\ AddStudentsBulk(u, list)
  \/ \E u \in StoreUnis, id \in StudentIds : VerifyStudent(u, id)
  \/ \E u \in StoreUnis : GetStatistics(u)
  \/ \E u \in StoreUnis, n \in 0..MaxN : GetTopStudents(u, n)

SpecStore == Init /\ [][NextStore]_vars

\* Two University objects whose names give one file path, over program
\* runs: adds, saves, lookups, and objects constructed anew.
PersistUnis == {"Stanford University", "Stanford_University"}

PersistIds == {"S1", "1001"}

PersistAddInputs ==
  { <<"S1",   "Alice", "CS", PyF(350), PyI(2023)>>,
    <<"1001", "Bob",   "EE", PyF(390), PyI(2024)>> }

NextPersist ==
  \/ \E u \in PersistUnis, inp \in PersistAddInputs :
       Len(students_df[u]) < MaxStudents /\ AddStudent(u, inp)
  \/ \E u \in PersistUnis :
       Len(students_df[u]) < MaxStudents /\ AddStudentsBulk(u, <<Alice>>)
  \/ \E u \in PersistUnis, io_ok \in BOOLEAN : SaveToCsv(u, io_ok)
  \/ \E u \in PersistUnis : University(u)
  \/ \E u \in PersistUnis, id \in PersistIds : VerifyStudent(u, id)

SpecPersist == Init /\ [][NextPersist]_vars

\* ------------------------------------------------------------------ claims
IsPrefix(a, b) == Len(a) <= Len(b) /\ SubSeq(b, 1, Len(a)) = a

HistoryPairs ==
  [i \in 1..Len(validation_history) |->
     <<validation_history[i].student_id, validation_history[i].requester>>]

SuccessCount ==
  Len(SelectSeq(validation_history, LAMBDA h : h.status = "Success"))

\* Position in the registration list of the first university whose table has
\* a row for id; 0 when no registered university has one.
EarliestHolder(id) ==
  LET hs == {i \in 1..Len(universities) :
               RowsWithId(students_df[universities[i]], id) # <<>>}
  IN IF hs = {} THEN 0 ELSE CHOOSE i \in hs : \A j \in hs : i <= j

\* C1: the (student_id, requester) pairs of the history are, in order, a
\* prefix of the requests in the order they were submitted, and are all of
\* them whenever the queue is empty.
C1_Fifo ==
  /\ IsPrefix(HistoryPairs, submitted)
  /\ validation_queue = <<>> => HistoryPairs = submitted

\* Two requests for different ids, submitted and processed, one resolved by
\* a university and one by none.
C1_Witness ==
  /\ validation_queue = <<>>
  /\ Len(validation_history) >= 2
  /\ validation_history[1].student_id # validation_history[2].student_id
  /\ validation_history[1].status # validation_history[2].status

\* C2: every entry process_validations records is Success naming the
\* earliest-registered university that holds a row with the requested id,
\* and is Not Found with no university exactly when no registered
\* university holds such a row.
C2_EarliestHolderResolves ==
  [][ret'.op = "process_validations" =>
       \A i \in (Len(validation_history) + 1)..Len(validation_history') :
         LET h == validation_history'[i]
             k == EarliestHolder(h.student_id)
         IN IF k = 0
            THEN h.status = "Not Found" /\ h.university = "N/A"
            ELSE h.status = "Success" /\ h.university = universities[k]]_vars

\* C3: process_validations with k queued requests leaves the queue empty and
\* the history longer by exactly k entries, the i-th new entry being the
\* i-th queued request with status Success or Not Found; no other call
\* touches the history or takes a request off the queue.
C3_ProcessedExactlyOnce ==
  [][/\ ret'.op = "process_validations" =>
          /\ validation_queue' = <<>>
          /\ Len(validation_history') =
               Len(validation_history) + Len(validation_queue)
          /\ IsPrefix(validation_history, validation_history')
          /\ \A i \in 1..Len(validation_queue) :
               LET h == validation_history'[Len(validation_history) + i] IN
               /\ <<h.student_id, h.requester>> = validation_queue[i]
               /\ h.status \in {"Success", "Not Found"}
     /\ ret'.op # "process_validations" =>
          /\ validation_history' = validation_history
          /\ IsPrefix(validation_queue, validation_queue')]_vars

\* A processing round in which a request that was not found is followed by
\* another request that was recorded too.
C3_Witness ==
  /\ ret.op = "process_validations"
  /\ ret.processed >= 2
  /\ validation_queue = <<>>
  /\ \E i \in 1..(Len(validation_history) - 1) :
       validation_history[i].status = "Not Found"

\* C4: after process_validations, successful_validations is the number of
\* Success entries of the history, total_requests is the length of the
\* history, and the rate of the summary is 100 * successful / total.
C4_CountersMatchHistory ==
  ret.op = "process_validations" =>
    /\ successful_validations = SuccessCount
    /\ total_requests = Len(validation_history)
    /\ ret.processed > 0 =>
         /\ ret.raised = "none"
         /\ ret.rate = <<RoundDiv(SuccessCount * 1000, Len(validation_history))>>

\* One university with one student, one request for that student, processed:
\* one Success entry, both counters 1, rate 100.0%.
C4_Witness ==
  /\ ret.op = "process_validations"
  /\ Len(universities) = 1
  /\ Len(students_df[universities[1]]) = 1
  /\ Len(validation_history) = 1
  /\ validation_history[1].status = "Success"
  /\ validation_history[1].university = universities[1]
  /\ successful_validations = 1
  /\ total_requests = 1
  /\ ret.rate = <<1000>>

\* C5: once add_student has succeeded twice with one id on a university,
\* verify_student of that id on that university returns a record with that
\* id, not None.
C5_DuplicateIdIsFound ==
  (/\ ret.op = "verify_student"
   /\ Len(RowsWithId(students_df[ret.uni], ret.id)) >= 2)
  => (ret.value # None /\ ret.value.student_id = ret.id)

\* C6: request_validation adds 1 to total_requests and one request at the
\* tail of the queue; request_validations_bulk(ids, requester) adds Len(ids)
\* to total_requests and the ids at the tail in the given order; neither
\* changes the history, successful_validations, the registration list or
\* any university's rows.
C6_SubmitEffect ==
  [][ret'.op \in {"request_validation", "request_validations_bulk"} =>
       /\ ret'.op = "request_validation" => Len(ret'.ids) = 1
       /\ total_requests' = total_requests + Len(ret'.ids)
       /\ validation_queue' =
            validation_queue \o
              [i \in 1..Len(ret'.ids) |-> <<ret'.ids[i], ret'.requester>>]
       /\ UNCHANGED <<validation_history, successful_validations,
                      universities, students_df>>]_vars

\* A batch of two different ids queued in the order given.
C6_Witness ==
  /\ ret.op = "request_validations_bulk"
  /\ Len(ret.ids) = 2
  /\ ret.ids[1] # ret.ids[2]
  /\ total_requests = 2
  /\ validation_queue = <<<<ret.ids[1], ret.requester>>, <<ret.ids[2], ret.requester>>>>

\* C7: get_analytics completes without raising in every reachable state.
C7_AnalyticsNeverRaises ==
  ret.op = "get_analytics" => ret.value.raised = "none"

\* The keys get_statistics reports for a table with rows.
StatKeys ==
  {"total_students", "average_cgpa", "median_cgpa", "highest_cgpa",
   "lowest_cgpa", "std_dev_cgpa", "degrees_offered", "recent_graduates"}

\* C8: get_statistics of a university without rows reports 0 under every
\* key it reports for a university with rows; no key is missing.
C8_EmptyStatisticsAllZero ==
  (ret.op = "get_statistics" /\ students_df[ret.uni] = <<>>) =>
    \A k \in StatKeys : k \in DOMAIN ret.value /\ ret.value[k] = 0

\* C9: nothing divides by total_requests when it is zero: a non-empty queue
\* implies total_requests >= 1, the summary of process_validations never
\* raises ZeroDivisionError, get_analytics omits the rate and the report
\* export writes 0 when total_requests is 0.
C9_NoDivisionByZero ==
  /\ validation_queue # <<>> => total_requests >= 1
  /\ ret.op = "process_validations" => ret.raised # "ZeroDivisionError"
  /\ (ret.op = "get_analytics" /\ total_requests = 0) =>
       ret.value.success_rate = <<>>
  /\ (ret.op = "export_comprehensive_report" /\ ret.value /\ total_requests = 0) =>
       ret.summary[5] = 0

\* A processing round that handled requests and printed a rate.
C9_Witness ==
  /\ ret.op = "process_validations"
  /\ ret.processed > 0
  /\ Len(ret.rate) = 1

\* C10: get_analytics leaves the queue, the history, both counters, the
\* registration list and every university's rows as they were, and a
\* second call right after a first reports what the first reported.
C10_AnalyticsReadOnly ==
  [][ret'.op = "get_analytics" =>
       /\ UNCHANGED sysvars
       /\ ret.op = "get_analytics" => ret'.value = ret.value]_vars

\* Analytics over a registered university with rows and a non-empty history.
C10_Witness ==
  /\ ret.op = "get_analytics"
  /\ ret.value.raised = "none"
  /\ ret.value.total_students > 0
  /\ validation_history # <<>>

RequiredKeys == {"student_id", "name", "degree", "cgpa", "graduation_year"}

LacksKey(list) == \E i \in 1..Len(list) : ~(RequiredKeys \subseteq DOMAIN list[i])

\* C11: add_students_bulk of a list in which some dict lacks one of
\* student_id, name, degree, cgpa, graduation_year returns False and inserts
\* no row.
C11_BulkMissingKeyFails ==
  [][(ret'.op = "add_students_bulk" /\ LacksKey(ret'.args))
     => (ret'.value = FALSE /\ students_df' = students_df)]_vars

BadNumber(d) ==
  \/ "cgpa" \in DOMAIN d /\ ~PyFloat(d.cgpa).ok
  \/ "graduation_year" \in DOMAIN d /\ ~PyInt(d.graduation_year).ok

\* C12: add_student with a cgpa float() rejects or a graduation_year int()
\* rejects, and add_students_bulk of a list with such a value in any dict,
\* return False (no exception leaves either call); a call that returns
\* False leaves every university's rows as they were.
C12_FailedAddChangesNothing ==
  [][/\ (ret'.op = "add_student"
         /\ (~PyFloat(ret'.args[4]).ok \/ ~PyInt(ret'.args[5]).ok))
        => ret'.value = FALSE
     /\ (ret'.op = "add_students_bulk"
         /\ \E i \in 1..Len(ret'.args) : BadNumber(ret'.args[i]))
        => ret'.value = FALSE
     /\ (ret'.op \in {"add_student", "add_students_bulk"} /\ ret'.value = FALSE)
        => students_df' = students_df]_vars

\* A batch whose second dict has a cgpa that is no number was refused on a
\* university that holds one row and nothing else.
C12_Witness ==
  /\ ret.op = "add_students_bulk"
  /\ ret.value = FALSE
  /\ Len(ret.args) = 2
  /\ BadNumber(ret.args[2]) /\ ~BadNumber(ret.args[1])
  /\ Len(students_df[ret.uni]) = 1

\* C13: verify_student(id) called on a university right after a successful
\* add_student(id, name, degree, cgpa, graduation_year) on it returns a
\* record with that id, name and degree, with float(cgpa) and
\* int(graduation_year), and with the university's name; verify_student of
\* an id no row of the university carries returns None.
C13_LookupAfterAdd ==
  [][/\ (/\ ret.op = "add_student" /\ ret.value = TRUE
         /\ ret'.op = "verify_student"
         /\ ret'.uni = ret.uni /\ ret'.id = ret.args[1])
        => /\ ret'.value # None
           /\ ret'.value.student_id = ret.args[1]
           /\ ret'.value.name = ret.args[2]
           /\ ret'.value.degree = ret.args[3]
           /\ ret'.value.cgpa = PyFloat(ret.args[4]).v
           /\ ret'.value.graduation_year = PyInt(ret.args[5]).v
           /\ ret'.value.university = ret.uni
     /\ (/\ ret'.op = "verify_student"
         /\ RowsWithId(students_df[ret'.uni], ret'.id) = <<>>)
        => ret'.value = None]_vars

Min(a, b) == IF a <= b THEN a ELSE b

\* C19: get_top_students(n), n >= 0, on a university with s rows returns
\* Min(n, s) rows without raising: rows of the university at distinct
\* positions, cgpa from high to low, rows of equal cgpa in the order the
\* university holds them, and no row left out has a larger cgpa than, or
\* an equal cgpa and an earlier position than, a row returned.
C19_TopN ==
  ret.op = "get_top_students" =>
    LET rows == students_df[ret.uni]
        top == ret.value.rows
        k == Min(ret.n, Len(rows))
    IN /\ ret.value.raised = "none"
       /\ Len(top) = k
       /\ \E pos \in [1..k -> 1..Len(rows)] :
            /\ \A i \in 1..k : top[i] = rows[pos[i]]
            /\ \A i, j \in 1..k :
                 i < j => \/ rows[pos[i]].cgpa > rows[pos[j]].cgpa
                          \/ /\ rows[pos[i]].cgpa = rows[pos[j]].cgpa
                             /\ pos[i] < pos[j]
            /\ \A i \in 1..k, m \in 1..Len(rows) :
                 (\A j \in 1..k : pos[j] # m)
                 => \/ rows[m].cgpa < rows[pos[i]].cgpa
                    \/ /\ rows[m].cgpa = rows[pos[i]].cgpa
                       /\ pos[i] < m

\* C14: every row a University object holds, whether it came from
\* add_student, from add_students_bulk or from the file read in __init__,
\* has the object's name in its university column.
C14_RowsCarryStoreName ==
  \A u \in Objects : \A i \in 1..Len(students_df[u]) :
    students_df[u][i].university = u

DistinctIds(rows) ==
  \A i, j \in 1..Len(rows) : rows[i].student_id = rows[j].student_id => i = j

\* C18: when University(name) is constructed while the file at its path
\* holds what save_to_csv wrote from the object of that name, and that
\* object's rows have distinct ids, verify_student on the new object returns
\* for each of those ids the row of the old object, field by field; when no
\* file exists the new object has no rows.
C18_RoundTrip ==
  [][ret'.op = "University" =>
       LET u == ret'.uni
           f == csv_files[csv_file(u)]
           old == students_df[u]
       IN /\ (f.exists /\ f.rows = to_csv(old) /\ DistinctIds(old))
             => \A i \in 1..Len(old) :
                  verify_student(students_df'[u], old[i].student_id) = old[i]
          /\ ~f.exists => students_df'[u] = <<>>]_vars

SubmitOps == {"request_validation", "request_validations_bulk"}

\* C15: no step makes total_requests or successful_validations smaller; a
\* step that changes total_requests is request_validation or
\* request_validations_bulk and leaves successful_validations alone; a step
\* that changes successful_validations is process_validations and leaves
\* total_requests alone (so add_student, add_students_bulk,
\* register_university, get_analytics and the report change neither).
C15_CountersMonotone ==
  [][/\ total_requests' >= total_requests
     /\ successful_validations' >= successful_validations
     /\ total_requests' # total_requests
        => (ret'.op \in SubmitOps
            /\ successful_validations' = successful_validations)
     /\ successful_validations' # successful_validations
        => (ret'.op = "process_validations"
            /\ total_requests' = total_requests)]_vars

\* Both counters have moved, and a bulk add came after.
C15_Witness ==
  /\ total_requests = 2
  /\ successful_validations = 1
  /\ ret.op = "add_students_bulk"

\* C16: every step leaves the history as a prefix of the history after it
\* (no entry's request_id, student_id, status, university or requester
\* changes, none goes away), and a step that lengthens the history is
\* process_validations.
C16_HistoryAppendOnly ==
  [][/\ IsPrefix(validation_history, validation_history')
     /\ validation_history' # validation_history
        => ret'.op = "process_validations"]_vars

\* A second round of processing has added to a history that had an entry.
C16_Witness ==
  /\ Len(validation_history) = 2
  /\ ret.op = "process_validations"
  /\ ret.processed = 1

\* C17: process_validations with an empty queue raises nothing and leaves
\* the history, total_requests, successful_validations, the queue, the
\* registration list and every university's rows as they were.
C17_EmptyQueueNoOp ==
  [][(ret'.op = "process_validations" /\ validation_queue = <<>>)
     => (ret'.raised = "none" /\ UNCHANGED sysvars)]_vars

\* process_validations ran with an empty queue right after a round that
\* handled requests.
C17_Witness ==
  /\ ret.op = "process_validations"
  /\ ret.processed = 0
  /\ validation_history # <<>>
  /\ validation_queue = <<>>

\* C20: when process_validations handles a request, the entry it writes is
\* "Success" exactly when some registered university holds, at that moment,
\* a row with the request's student_id (whenever the row was added), and
\* the entries of earlier rounds stay as they are.
C20_OutcomeFromCurrentRows ==
  [][(ret'.op = "process_validations" /\ validation_queue # <<>>)
     => /\ IsPrefix(validation_history, validation_history')
        /\ \A j \in 1..Len(validation_queue) :
             LET e == validation_history'[Len(validation_history) + j]
             IN (e.status = "Success")
                <=> \E i \in 1..Len(universities) :
                      RowsWithId(students_df[universities[i]],
                                 validation_queue[j][1]) # <<>>]_vars

\* C21: between calls, total_requests equals the number of history entries
\* plus the number of requests waiting in the queue.
C21_RequestsConserved ==
  total_requests = Len(validation_history) + Len(validation_queue)

\* One request has been processed and another, submitted after that round,
\* is waiting.
C21_Witness ==
  /\ total_requests = 2
  /\ Len(validation_history) = 1
  /\ Len(validation_queue) = 1
  /\ ret.op \in SubmitOps

\* C22: the k-th history entry has request_id k, over any number of
\* processing rounds and submissions between them.
C22_RequestIdsDense ==
  \A k \in 1..Len(validation_history) : validation_history[k].request_id = k

\* Two rounds of one request each, the second request submitted after the
\* first round, gave the entries 1 and 2.
C22_Witness ==
  /\ Len(validation_history) = 2
  /\ validation_history[1].request_id = 1
  /\ validation_history[2].request_id = 2
  /\ ret.op = "process_validations"
  /\ ret.processed = 1
  /\ validation_queue = <<>>

====
